---- MODULE Spec2Model ----
(***************************************************************************)
(* A model of the Backstage API client of src/backstage/backstage.go:      *)
(* NewClient, Client.newRequest and Client.do.                             *)
(*                                                                         *)
(* Go strings are modelled as sequences of one-byte strings, so that the   *)
(* string operations of the code (TrimSuffix, HasSuffix, url.Parse,        *)
(* url.JoinPath, URL.ResolveReference, URL.String, json Encode / Decode)   *)
(* are computed byte by byte as the Go standard library computes them      *)
(* (net/url, path and encoding/json of Go 1.20 and later).                 *)
(***************************************************************************)
EXTENDS Integers, Sequences, FiniteSets, TLC

(***************************************************************************)
(* Bytes.                                                                  *)
(***************************************************************************)
LowerChars == <<"a","b","c","d","e","f","g","h","i","j","k","l","m",
                "n","o","p","q","r","s","t","u","v","w","x","y","z">>
UpperChars == <<"A","B","C","D","E","F","G","H","I","J","K","L","M",
                "N","O","P","Q","R","S","T","U","V","W","X","Y","Z">>
DigitChars == <<"0","1","2","3","4","5","6","7","8","9">>
HexChars == <<"0","1","2","3","4","5","6","7","8","9","A","B","C","D","E","F">>

\* The double quote, the backslash and the backquote, named: every other
\* printable byte is written as itself.
DQ == "dquote"
BS == "bslash"
BQ == "bquote"

\* The printable ASCII bytes 0x20 .. 0x7E, in order.
AsciiChars ==
    <<" ","!",DQ,"#","$","%","&","'","(",")","*","+",",","-",".","/">>
    \o DigitChars \o <<":",";","<","=",">","?","@">>
    \o UpperChars \o <<"[",BS,"]","^","_",BQ>>
    \o LowerChars \o <<"{","|","}","~">>

Range(s) == {s[k] : k \in 1..Len(s)}
IndexIn(s, c) == CHOOSE k \in 1..Len(s) : s[k] = c

LowerSet == Range(LowerChars)
UpperSet == Range(UpperChars)
DigitSet == Range(DigitChars)
AsciiSet == Range(AsciiChars)

IsLower(c) == c \in LowerSet
IsUpper(c) == c \in UpperSet
IsDigit(c) == c \in DigitSet
IsAlnum(c) == IsLower(c) \/ IsUpper(c) \/ IsDigit(c)

\* The byte with code n: itself when printable, else the token "0xHH".
CharOfCode(n) ==
    IF n >= 32 /\ n <= 126 THEN AsciiChars[n - 31]
    ELSE "0x" \o HexChars[(n \div 16) + 1] \o HexChars[(n % 16) + 1]

AsciiCode == [c \in AsciiSet |-> IndexIn(AsciiChars, c) + 31]

CodeOfChar(c) ==
    IF c \in AsciiSet THEN AsciiCode[c]
    ELSE CHOOSE n \in (0..31) \cup (127..255) : CharOfCode(n) = c

ishex(c) == IsDigit(c) \/ c \in {"a","b","c","d","e","f","A","B","C","D","E","F"}

unhex(c) ==
    IF IsDigit(c) THEN IndexIn(DigitChars, c) - 1
    ELSE IF IsLower(c) THEN IndexIn(LowerChars, c) + 9
    ELSE IndexIn(UpperChars, c) + 9

ToLowerChar(c) == IF IsUpper(c) THEN LowerChars[IndexIn(UpperChars, c)] ELSE c

(***************************************************************************)
(* package strings                                                         *)
(***************************************************************************)
HasPrefix(s, p) == Len(s) >= Len(p) /\ SubSeq(s, 1, Len(p)) = p
HasSuffix(s, p) == Len(s) >= Len(p) /\ SubSeq(s, Len(s) - Len(p) + 1, Len(s)) = p
TrimSuffix(s, p) == IF HasSuffix(s, p) THEN SubSeq(s, 1, Len(s) - Len(p)) ELSE s
ContainsChar(s, c) == \E k \in 1..Len(s) : s[k] = c
CountChar(s, c) == Cardinality({k \in 1..Len(s) : s[k] = c})
\* 1-based position of the first / last c in s, 0 when there is none.
IndexChar(s, c) ==
    IF ContainsChar(s, c) THEN CHOOSE k \in 1..Len(s) : s[k] = c /\ \A j \in 1..(k-1) : s[j] # c
    ELSE 0
LastIndexChar(s, c) ==
    IF ContainsChar(s, c) THEN CHOOSE k \in 1..Len(s) : s[k] = c /\ \A j \in (k+1)..Len(s) : s[j] # c
    ELSE 0
\* strings.Cut(s, c): before, after, found.
CutBefore(s, c) == IF ContainsChar(s, c) THEN SubSeq(s, 1, IndexChar(s, c) - 1) ELSE s
CutAfter(s, c) == IF ContainsChar(s, c) THEN SubSeq(s, IndexChar(s, c) + 1, Len(s)) ELSE <<>>
ToLower(s) == [k \in 1..Len(s) |-> ToLowerChar(s[k])]

\* strings.Split(s, "/"): the segments between the separators.
RECURSIVE SplitChar(_, _)
SplitChar(s, c) ==
    IF ~ContainsChar(s, c) THEN <<s>>
    ELSE <<CutBefore(s, c)>> \o SplitChar(CutAfter(s, c), c)

RECURSIVE JoinChar(_, _)
JoinChar(segs, c) ==
    IF Len(segs) = 0 THEN <<>>
    ELSE IF Len(segs) = 1 THEN segs[1]
    ELSE segs[1] \o <<c>> \o JoinChar(Tail(segs), c)

RECURSIVE Concat(_)
Concat(ss) == IF Len(ss) = 0 THEN <<>> ELSE ss[1] \o Concat(Tail(ss))

\* All the strings over alphabet of length at most n.
RECURSIVE StringsUpTo(_, _)
StringsUpTo(alphabet, n) ==
    IF n = 0 THEN {<<>>}
    ELSE LET Longer(shorter) ==
                 shorter \cup {Append(s, c) : s \in {t \in shorter : Len(t) = n - 1},
                                              c \in alphabet}
         IN  Longer(StringsUpTo(alphabet, n - 1))

(***************************************************************************)
(* package net/url: escaping                                               *)
(***************************************************************************)
\* url.shouldEscape(c, mode) for mode in "path", "host", "fragment".
shouldEscape(c, mode) ==
    IF IsAlnum(c) THEN FALSE
    ELSE IF mode = "host" /\ c \in {"!","$","&","'","(",")","*","+",",",";","=",":","[","]","<",">",DQ}
    THEN FALSE
    ELSE IF c \in {"-","_",".","~"} THEN FALSE
    ELSE IF c \in {"$","&","+",",","/",":",";","=","?","@"} /\ mode = "path" THEN c = "?"
    ELSE IF c \in {"$","&","+",",","/",":",";","=","?","@"} /\ mode = "fragment" THEN FALSE
    ELSE IF mode = "fragment" /\ c \in {"!","(",")","*"} THEN FALSE
    ELSE TRUE

EscapeChar(c, mode) ==
    IF shouldEscape(c, mode)
    THEN <<"%", HexChars[(CodeOfChar(c) \div 16) + 1], HexChars[(CodeOfChar(c) % 16) + 1]>>
    ELSE <<c>>

\* url.escape(s, mode)
escape(s, mode) == Concat([k \in 1..Len(s) |-> EscapeChar(s[k], mode)])

\* The check url.unescape(s, mode) makes before it decodes, from byte i on: the
\* error, "nil" when s is well formed.
RECURSIVE unescapeErrFrom(_, _, _)
unescapeErrFrom(s, i, mode) ==
    IF i > Len(s) THEN "nil"
    ELSE IF s[i] = "%"
    THEN IF i + 2 > Len(s) \/ ~ishex(s[i+1]) \/ ~ishex(s[i+2]) THEN "invalid URL escape"
         ELSE IF mode = "host" /\ unhex(s[i+1]) < 8 /\ SubSeq(s, i, i+2) # <<"%","2","5">>
         THEN "invalid URL escape"
         ELSE unescapeErrFrom(s, i + 3, mode)
    ELSE IF mode = "host" /\ CodeOfChar(s[i]) < 128 /\ shouldEscape(s[i], "host")
    THEN "invalid character in host name"
    ELSE unescapeErrFrom(s, i + 1, mode)

RECURSIVE unescapeFrom(_, _)
unescapeFrom(s, i) ==
    IF i > Len(s) THEN <<>>
    ELSE IF s[i] = "%"
    THEN <<CharOfCode(unhex(s[i+1]) * 16 + unhex(s[i+2]))>> \o unescapeFrom(s, i + 3)
    ELSE <<s[i]>> \o unescapeFrom(s, i + 1)

\* url.unescape(s, mode): the error and the decoded string.
unescapeWith(s, e) == [err |-> e, val |-> IF e = "nil" THEN unescapeFrom(s, 1) ELSE <<>>]
unescape(s, mode) == unescapeWith(s, unescapeErrFrom(s, 1, mode))

\* url.validEncoded(s, mode)
validEncoded(s, mode) ==
    \A k \in 1..Len(s) :
        \/ s[k] \in {"!","$","&","'","(",")","*","+",",",";","=",":","@","[","]","%"}
        \/ ~shouldEscape(s[k], mode)

(***************************************************************************)
(* package net/url: URL, Parse, String                                     *)
(*                                                                         *)
(* A url.URL value.  URL.User is left out: no input of the model holds an  *)
(* "@", so parseAuthority is parseHost, and no input holds a "[", so       *)
(* parseHost has no IPv6 literal to read.                                  *)
(*                                                                         *)
(* Where a Go function names an intermediate result and reads it several   *)
(* times, the model passes the result to a local operator (With...), so    *)
(* that it is computed once.                                               *)
(***************************************************************************)
ZeroURL ==
    [Scheme |-> <<>>, Opaque |-> <<>>, Host |-> <<>>, Path |-> <<>>, RawPath |-> <<>>,
     OmitHost |-> FALSE, ForceQuery |-> FALSE, RawQuery |-> <<>>,
     Fragment |-> <<>>, RawFragment |-> <<>>]

\* URL.setPath(p): the error, and the Path and RawPath it sets.
setPath(p) ==
    LET WithUnescaped(un) ==
            [err |-> un.err,
             Path |-> un.val,
             RawPath |-> IF un.err = "nil" /\ escape(un.val, "path") # p THEN p ELSE <<>>]
    IN  WithUnescaped(unescape(p, "path"))

\* u after u.setPath(p) with the error dropped: an invalid p leaves u as it was.
WithPath(u, p) ==
    LET WithSet(sp) ==
            IF sp.err = "nil" THEN [u EXCEPT !.Path = sp.Path, !.RawPath = sp.RawPath] ELSE u
    IN  WithSet(setPath(p))

\* URL.setFragment(f)
setFragment(f) ==
    LET WithUnescaped(un) ==
            [err |-> un.err,
             Fragment |-> un.val,
             RawFragment |-> IF un.err = "nil" /\ escape(un.val, "fragment") # f
                             THEN f ELSE <<>>]
    IN  WithUnescaped(unescape(f, "fragment"))

\* Whether the hint raw is a valid encoding of the decoded string.
hintHolds(raw, decoded, mode) ==
    LET WithUnescaped(un) == un.err = "nil" /\ un.val = decoded
    IN  raw # <<>> /\ validEncoded(raw, mode) /\ WithUnescaped(unescape(raw, mode))

\* URL.EscapedPath()
EscapedPath(u) ==
    IF hintHolds(u.RawPath, u.Path, "path") THEN u.RawPath
    ELSE IF u.Path = <<"*">> THEN <<"*">>
    ELSE escape(u.Path, "path")

\* URL.EscapedFragment()
EscapedFragment(u) ==
    IF hintHolds(u.RawFragment, u.Fragment, "fragment") THEN u.RawFragment
    ELSE escape(u.Fragment, "fragment")

\* url.getScheme(rawURL), reading from byte i.
RECURSIVE getSchemeFrom(_, _)
getSchemeFrom(s, i) ==
    IF i > Len(s) THEN [err |-> "nil", scheme |-> <<>>, rest |-> s]
    ELSE IF IsLower(s[i]) \/ IsUpper(s[i]) THEN getSchemeFrom(s, i + 1)
    ELSE IF IsDigit(s[i]) \/ s[i] \in {"+", "-", "."}
    THEN IF i = 1 THEN [err |-> "nil", scheme |-> <<>>, rest |-> s]
         ELSE getSchemeFrom(s, i + 1)
    ELSE IF s[i] = ":"
    THEN IF i = 1 THEN [err |-> "missing protocol scheme", scheme |-> <<>>, rest |-> <<>>]
         ELSE [err |-> "nil", scheme |-> SubSeq(s, 1, i - 1), rest |-> SubSeq(s, i + 1, Len(s))]
    ELSE [err |-> "nil", scheme |-> <<>>, rest |-> s]

getScheme(s) == getSchemeFrom(s, 1)

\* url.validOptionalPort(port)
validOptionalPort(port) ==
    \/ port = <<>>
    \/ /\ port[1] = ":"
       /\ \A k \in 2..Len(port) : IsDigit(port[k])

\* url.parseHost(host), for a host that is no IPv6 literal.
parseHost(host) ==
    LET WithColon(i) ==
            IF i # 0 /\ ~validOptionalPort(SubSeq(host, i, Len(host)))
            THEN [err |-> "invalid port after host", val |-> <<>>]
            ELSE unescape(host, "host")
    IN  WithColon(LastIndexChar(host, ":"))

stringContainsCTLByte(s) ==
    \E k \in 1..Len(s) : CodeOfChar(s[k]) < 32 \/ CodeOfChar(s[k]) = 127

\* The end of url.parse: the authority and the path of rest, for the URL u
\* that holds the scheme and the query.
parseAuthorityAndPath(u, rest) ==
    LET hasAuthority == (u.Scheme # <<>> \/ ~HasPrefix(rest, <<"/", "/", "/">>))
                        /\ HasPrefix(rest, <<"/", "/">>)
        WithParts(host, sp) ==
            IF host.err # "nil" THEN [err |-> host.err, url |-> ZeroURL]
            ELSE IF sp.err # "nil" THEN [err |-> sp.err, url |-> ZeroURL]
            ELSE [err |-> "nil",
                  url |-> [u EXCEPT !.Host = host.val,
                                    !.OmitHost = ~hasAuthority /\ u.Scheme # <<>>
                                                 /\ HasPrefix(rest, <<"/">>),
                                    !.Path = sp.Path, !.RawPath = sp.RawPath]]
        WithAuthority(authority) ==
            WithParts(parseHost(authority),
                      setPath(SubSeq(rest, Len(authority) + 3, Len(rest))))
    IN  IF hasAuthority THEN WithAuthority(CutBefore(SubSeq(rest, 3, Len(rest)), "/"))
        ELSE WithParts([err |-> "nil", val |-> <<>>], setPath(rest))

\* url.parse(rawURL, viaRequest = false) after getScheme: the query is split
\* off rest, then an opaque or a hierarchical URL is read.
parseAfterScheme(scheme, rest0) ==
    LET force == HasSuffix(rest0, <<"?">>) /\ CountChar(rest0, "?") = 1
        WithRest(u, rest) ==
            IF ~HasPrefix(rest, <<"/">>) /\ scheme # <<>>
            THEN [err |-> "nil", url |-> [u EXCEPT !.Opaque = rest]]
            ELSE IF ~HasPrefix(rest, <<"/">>) /\ ContainsChar(CutBefore(rest, "/"), ":")
            THEN [err |-> "first path segment in URL cannot contain colon", url |-> ZeroURL]
            ELSE parseAuthorityAndPath(u, rest)
    IN  IF force
        THEN WithRest([ZeroURL EXCEPT !.Scheme = scheme, !.ForceQuery = TRUE],
                      SubSeq(rest0, 1, Len(rest0) - 1))
        ELSE WithRest([ZeroURL EXCEPT !.Scheme = scheme, !.RawQuery = CutAfter(rest0, "?")],
                      CutBefore(rest0, "?"))

\* url.parse(rawURL, viaRequest = false): rawURL holds no "#".
parse(rawURL) ==
    LET WithScheme(gs) ==
            IF gs.err # "nil" THEN [err |-> gs.err, url |-> ZeroURL]
            ELSE parseAfterScheme(ToLower(gs.scheme), gs.rest)
    IN  IF stringContainsCTLByte(rawURL)
        THEN [err |-> "invalid control character in URL", url |-> ZeroURL]
        ELSE IF rawURL = <<"*">>
        THEN [err |-> "nil", url |-> [ZeroURL EXCEPT !.Path = <<"*">>]]
        ELSE WithScheme(getScheme(rawURL))

\* url.Parse(rawURL)
Parse(rawURL) ==
    LET WithFragment(r, sf) ==
            IF sf.err # "nil" THEN [err |-> sf.err, url |-> ZeroURL]
            ELSE [err |-> "nil",
                  url |-> [r.url EXCEPT !.Fragment = sf.Fragment,
                                        !.RawFragment = sf.RawFragment]]
        WithParsed(r, frag) ==
            IF r.err # "nil" THEN r
            ELSE IF frag = <<>> THEN r
            ELSE WithFragment(r, setFragment(frag))
    IN  WithParsed(parse(CutBefore(rawURL, "#")), CutAfter(rawURL, "#"))

\* URL.String()
String(u) ==
    LET WithParts(head, path) ==
            head
            \o (IF u.Opaque # <<>> THEN <<>>
                ELSE (IF path # <<>> /\ path[1] # "/" /\ u.Host # <<>> THEN <<"/">> ELSE <<>>)
                     \o (IF head = <<>> /\ ContainsChar(CutBefore(path, "/"), ":")
                         THEN <<".", "/">> ELSE <<>>)
                     \o path)
            \o (IF u.ForceQuery \/ u.RawQuery # <<>> THEN <<"?">> \o u.RawQuery ELSE <<>>)
            \o (IF u.Fragment # <<>> THEN <<"#">> \o EscapedFragment(u) ELSE <<>>)
    IN  WithParts((IF u.Scheme # <<>> THEN u.Scheme \o <<":">> ELSE <<>>)
                  \o (IF u.Opaque # <<>> THEN u.Opaque
                      ELSE IF (u.Scheme # <<>> \/ u.Host # <<>>) /\ ~(u.OmitHost /\ u.Host = <<>>)
                      THEN (IF u.Host # <<>> \/ u.Path # <<>> THEN <<"/", "/">> ELSE <<>>)
                           \o escape(u.Host, "host")
                      ELSE <<>>),
                  EscapedPath(u))

(***************************************************************************)
(* package path: Clean, Join                                               *)
(***************************************************************************)
\* The elements Clean keeps of segs[i..], on top of those kept so far.
RECURSIVE CleanFrom(_, _, _, _)
CleanFrom(segs, i, kept, rooted) ==
    IF i > Len(segs) THEN kept
    ELSE IF segs[i] = <<>> \/ segs[i] = <<".">> THEN CleanFrom(segs, i + 1, kept, rooted)
    ELSE IF segs[i] = <<".", ".">>
    THEN IF Len(kept) > 0 /\ kept[Len(kept)] # <<".", ".">>
         THEN CleanFrom(segs, i + 1, SubSeq(kept, 1, Len(kept) - 1), rooted)
         ELSE IF rooted THEN CleanFrom(segs, i + 1, kept, rooted)
         ELSE CleanFrom(segs, i + 1, Append(kept, segs[i]), rooted)
    ELSE CleanFrom(segs, i + 1, Append(kept, segs[i]), rooted)

\* path.Clean(p)
Clean(p) ==
    LET rooted == HasPrefix(p, <<"/">>)
        WithOut(out) == IF out = <<>> THEN <<".">> ELSE out
    IN  WithOut((IF rooted THEN <<"/">> ELSE <<>>)
                \o JoinChar(CleanFrom(SplitChar(p, "/"), 1, <<>>, rooted), "/"))

\* path.Join(a, b)
pathJoin(a, b) ==
    IF a = <<>> /\ b = <<>> THEN <<>>
    ELSE IF a = <<>> THEN Clean(b)
    ELSE Clean(a \o <<"/">> \o b)

(***************************************************************************)
(* package net/url: JoinPath, ResolveReference                             *)
(***************************************************************************)
\* URL.JoinPath(elem), with one element.
URLJoinPath(u, elem) ==
    LET WithJoined(joined) ==
            WithPath(u, IF HasSuffix(elem, <<"/">>) /\ ~HasSuffix(joined, <<"/">>)
                        THEN joined \o <<"/">> ELSE joined)
        WithEscaped(e0) ==
            IF ~HasPrefix(e0, <<"/">>) THEN WithJoined(Tail(pathJoin(<<"/">> \o e0, elem)))
            ELSE WithJoined(pathJoin(e0, elem))
    IN  WithEscaped(EscapedPath(u))

\* url.JoinPath(base, elem): the error and the joined URL as a string.
JoinPath(base, elem) ==
    LET WithBase(r) ==
            IF r.err # "nil" THEN [err |-> r.err, val |-> <<>>]
            ELSE [err |-> "nil", val |-> String(URLJoinPath(r.url, elem))]
    IN  WithBase(Parse(base))

\* The loop of url.resolvePath over the elements of the full path: dst is the
\* builder (it starts as "/"), first whether no element was written yet.
RECURSIVE resolveFrom(_, _, _, _)
resolveFrom(segs, i, dst, first) ==
    IF i > Len(segs) THEN dst
    ELSE IF segs[i] = <<".">> THEN resolveFrom(segs, i + 1, dst, FALSE)
    ELSE IF segs[i] = <<".", ".">>
    THEN LET WithIndex(str, index) ==
                 IF index = 0 THEN resolveFrom(segs, i + 1, <<"/">>, TRUE)
                 ELSE resolveFrom(segs, i + 1, <<"/">> \o SubSeq(str, 1, index - 1), first)
         IN  WithIndex(Tail(dst), LastIndexChar(Tail(dst), "/"))
    ELSE resolveFrom(segs, i + 1,
                     dst \o (IF first THEN <<>> ELSE <<"/">>) \o segs[i], FALSE)

\* url.resolvePath(base, ref)
resolvePath(base, ref) ==
    LET WithResult(r) == IF Len(r) > 1 /\ r[2] = "/" THEN Tail(r) ELSE r
        WithSegs(segs) ==
            WithResult(resolveFrom(segs, 1, <<"/">>, TRUE)
                       \o (IF segs[Len(segs)] \in {<<".">>, <<".", ".">>} THEN <<"/">> ELSE <<>>))
        WithFull(full) == IF full = <<>> THEN <<>> ELSE WithSegs(SplitChar(full, "/"))
    IN  WithFull(IF ref = <<>> THEN base
                 ELSE IF ref[1] # "/" THEN SubSeq(base, 1, LastIndexChar(base, "/")) \o ref
                 ELSE ref)

\* URL.ResolveReference(ref), on the receiver u.
ResolveReference(u, ref) ==
    LET url0 == IF ref.Scheme = <<>> THEN [ref EXCEPT !.Scheme = u.Scheme] ELSE ref
        url1 == IF ref.Path = <<>> /\ ~ref.ForceQuery /\ ref.RawQuery = <<>>
                THEN IF ref.Fragment = <<>>
                     THEN [url0 EXCEPT !.RawQuery = u.RawQuery,
                                       !.Fragment = u.Fragment, !.RawFragment = u.RawFragment]
                     ELSE [url0 EXCEPT !.RawQuery = u.RawQuery]
                ELSE url0
    IN  IF ref.Scheme # <<>> \/ ref.Host # <<>>
        THEN WithPath(url0, resolvePath(EscapedPath(ref), <<>>))
        ELSE IF ref.Opaque # <<>>
        THEN [url0 EXCEPT !.Host = <<>>, !.Path = <<>>]
        ELSE IF ref.Path = <<>> /\ u.Opaque # <<>>
        THEN [url1 EXCEPT !.Opaque = u.Opaque, !.Host = <<>>, !.Path = <<>>]
        ELSE WithPath([url1 EXCEPT !.Host = u.Host],
                      resolvePath(EscapedPath(u), EscapedPath(ref)))

(***************************************************************************)
(* package encoding/json                                                   *)
(*                                                                         *)
(* Go values, as the model holds them:                                     *)
(*   [k |-> "nil"]                    the nil interface                    *)
(*   [k |-> "int", n |-> 11]          an int                               *)
(*   [k |-> "str", s |-> bytes]       a string                             *)
(*   [k |-> "bool", b |-> TRUE]       a bool                               *)
(*   [k |-> "slice", e |-> <<v..>>]   a []interface{}                      *)
(*   [k |-> "struct", f |-> <<<<name, v>>..>>]  a struct, fields in order  *)
(*   [k |-> "chan"]                   a channel (json cannot encode it)    *)
(* and, as Decode stores them in an interface{}:                           *)
(*   [k |-> "num", lit |-> bytes]     a float64, by its literal            *)
(*   [k |-> "map", m |-> [key -> v]]  a map[string]interface{}             *)
(***************************************************************************)
HT == CharOfCode(9)
NL == CharOfCode(10)
CR == CharOfCode(13)
isSpace(c) == c \in {" ", HT, CR, NL}

NilValue == [k |-> "nil"]

\* strconv.Itoa(n), n >= 0
RECURSIVE Itoa(_)
Itoa(n) == IF n < 10 THEN <<DigitChars[n + 1]>> ELSE Itoa(n \div 10) \o <<DigitChars[(n % 10) + 1]>>

\* The bytes json writes for one byte of a string (HTML escaping is on in an
\* Encoder by default).
EncodeStringChar(c) ==
    IF c = DQ THEN <<BS, DQ>>
    ELSE IF c = BS THEN <<BS, BS>>
    ELSE IF c = NL THEN <<BS, "n">>
    ELSE IF c = CR THEN <<BS, "r">>
    ELSE IF c = HT THEN <<BS, "t">>
    ELSE IF c \in {"<", ">", "&"}
    THEN <<BS, "u", "0", "0">> \o <<ToLowerChar(HexChars[(CodeOfChar(c) \div 16) + 1]),
                                     ToLowerChar(HexChars[(CodeOfChar(c) % 16) + 1])>>
    ELSE <<c>>

EncodeString(str) == <<DQ>> \o Concat([k \in 1..Len(str) |-> EncodeStringChar(str[k])]) \o <<DQ>>

\* json.Marshal(v): the error and the bytes.
RECURSIVE Marshal(_)
Marshal(v) ==
    IF v.k = "nil" THEN [err |-> "nil", val |-> <<"n","u","l","l">>]
    ELSE IF v.k = "int" THEN [err |-> "nil", val |-> Itoa(v.n)]
    ELSE IF v.k = "str" THEN [err |-> "nil", val |-> EncodeString(v.s)]
    ELSE IF v.k = "bool"
    THEN [err |-> "nil", val |-> IF v.b THEN <<"t","r","u","e">> ELSE <<"f","a","l","s","e">>]
    ELSE IF v.k = "slice"
    THEN LET WithParts(parts) ==
                 IF \E i \in 1..Len(parts) : parts[i].err # "nil"
                 THEN [err |-> "json: unsupported type", val |-> <<>>]
                 ELSE [err |-> "nil",
                       val |-> <<"[">> \o JoinChar([i \in 1..Len(parts) |-> parts[i].val], ",")
                               \o <<"]">>]
         IN  WithParts([i \in 1..Len(v.e) |-> Marshal(v.e[i])])
    ELSE IF v.k = "struct"
    THEN LET WithParts(parts) ==
                 IF \E i \in 1..Len(parts) : parts[i].err # "nil"
                 THEN [err |-> "json: unsupported type", val |-> <<>>]
                 ELSE [err |-> "nil",
                       val |-> <<"{">>
                               \o JoinChar([i \in 1..Len(parts) |->
                                              EncodeString(v.f[i][1]) \o <<":">> \o parts[i].val],
                                           ",")
                               \o <<"}">>]
         IN  WithParts([i \in 1..Len(v.f) |-> Marshal(v.f[i][2])])
    ELSE [err |-> "json: unsupported type", val |-> <<>>]

\* json.NewEncoder(buf).Encode(v): the error and the bytes written to buf.
Encode(v) ==
    LET WithMarshalled(m) ==
            IF m.err # "nil" THEN m ELSE [err |-> "nil", val |-> m.val \o <<NL>>]
    IN  WithMarshalled(Marshal(v))

\* The first position from i on that holds no white space, Len(s) + 1 if none.
RECURSIVE SkipSpace(_, _)
SkipSpace(s, i) == IF i <= Len(s) /\ isSpace(s[i]) THEN SkipSpace(s, i + 1) ELSE i

\* The first position from i on that holds no digit.
RECURSIVE SkipDigits(_, _)
SkipDigits(s, i) == IF i <= Len(s) /\ IsDigit(s[i]) THEN SkipDigits(s, i + 1) ELSE i

\* A scan result: st is "ok", "syntax" (an invalid byte) or "eof" (the input ends
\* inside the value); val the value read; nxt the position after it.
ScanFail(st) == [st |-> st, val |-> NilValue, nxt |-> 0]
ScanOk(v, nxt) == [st |-> "ok", val |-> v, nxt |-> nxt]

\* A number starting at i (the scanner's states1, 0, Dot, E, ESign): d is the
\* first digit, intEnd, fracEnd and expEnd the ends of the three parts.
ScanNumberExp(s, i, fracEnd) ==
    LET hasExp == fracEnd <= Len(s) /\ s[fracEnd] \in {"e", "E"}
        WithExp(expDigits, expEnd) ==
            IF hasExp /\ expEnd = expDigits
            THEN IF expEnd > Len(s) THEN ScanFail("eof") ELSE ScanFail("syntax")
            ELSE ScanOk([k |-> "num", lit |-> SubSeq(s, i, expEnd - 1)], expEnd)
        WithDigits(expDigits) ==
            WithExp(expDigits, IF hasExp THEN SkipDigits(s, expDigits) ELSE fracEnd)
    IN  WithDigits(IF hasExp /\ fracEnd + 1 <= Len(s) /\ s[fracEnd + 1] \in {"+", "-"}
                   THEN fracEnd + 2 ELSE fracEnd + 1)

ScanNumberFrac(s, i, intEnd) ==
    LET hasFrac == intEnd <= Len(s) /\ s[intEnd] = "."
        WithFrac(fracEnd) ==
            IF hasFrac /\ fracEnd = intEnd + 1
            THEN IF fracEnd > Len(s) THEN ScanFail("eof") ELSE ScanFail("syntax")
            ELSE ScanNumberExp(s, i, fracEnd)
    IN  WithFrac(IF hasFrac THEN SkipDigits(s, intEnd + 1) ELSE intEnd)

ScanNumberInt(s, i, d) ==
    IF d > Len(s) THEN ScanFail("eof")
    ELSE IF ~IsDigit(s[d]) THEN ScanFail("syntax")
    ELSE ScanNumberFrac(s, i, IF s[d] = "0" THEN d + 1 ELSE SkipDigits(s, d))

ScanNumber(s, i) == ScanNumberInt(s, i, IF s[i] = "-" THEN i + 1 ELSE i)

\* The literal word (true, false, null) expected at i; the input holds have of
\* its bytes.
ScanLiteralHave(s, i, word, v, have) ==
    IF SubSeq(s, i, i + have - 1) # SubSeq(word, 1, have) THEN ScanFail("syntax")
    ELSE IF have < Len(word) THEN ScanFail("eof")
    ELSE ScanOk(v, i + Len(word))

ScanLiteral(s, i, word, v) ==
    ScanLiteralHave(s, i, word, v,
                    IF Len(s) - i + 1 < Len(word) THEN Len(s) - i + 1 ELSE Len(word))

\* The rest of a string whose opening quote was read; i is the next byte, acc
\* the bytes decoded so far.  A \u00XX escape decodes to the byte XX, any other
\* \uXXXX to one token naming the code point.
RECURSIVE ScanString(_, _, _)
ScanString(s, i, acc) ==
    IF i > Len(s) THEN ScanFail("eof")
    ELSE IF s[i] = DQ THEN ScanOk([k |-> "str", s |-> acc], i + 1)
    ELSE IF s[i] = BS
    THEN IF i + 1 > Len(s) THEN ScanFail("eof")
         ELSE IF s[i+1] \in {DQ, BS, "/"} THEN ScanString(s, i + 2, Append(acc, s[i+1]))
         ELSE IF s[i+1] = "n" THEN ScanString(s, i + 2, Append(acc, NL))
         ELSE IF s[i+1] = "r" THEN ScanString(s, i + 2, Append(acc, CR))
         ELSE IF s[i+1] = "t" THEN ScanString(s, i + 2, Append(acc, HT))
         ELSE IF s[i+1] = "b" THEN ScanString(s, i + 2, Append(acc, CharOfCode(8)))
         ELSE IF s[i+1] = "f" THEN ScanString(s, i + 2, Append(acc, CharOfCode(12)))
         ELSE IF s[i+1] = "u"
         THEN IF \E j \in (i+2)..(i+5) : j <= Len(s) /\ ~ishex(s[j]) THEN ScanFail("syntax")
              ELSE IF i + 5 > Len(s) THEN ScanFail("eof")
              ELSE IF s[i+2] # "0" \/ s[i+3] # "0"
              THEN ScanString(s, i + 6,
                              Append(acc, "u+" \o s[i+2] \o s[i+3] \o s[i+4] \o s[i+5]))
              ELSE ScanString(s, i + 6,
                              Append(acc, CharOfCode(unhex(s[i+4]) * 16 + unhex(s[i+5]))))
         ELSE ScanFail("syntax")
    ELSE IF CodeOfChar(s[i]) < 32 THEN ScanFail("syntax")
    ELSE ScanString(s, i + 1, Append(acc, s[i]))

\* One JSON value starting at position i <= Len(s), which holds no white space.
RECURSIVE ScanValue(_, _), ScanElems(_, _, _), ScanMembers(_, _, _)
ScanValue(s, i) ==
    IF s[i] = "[" THEN
        LET WithNext(j) ==
                IF j > Len(s) THEN ScanFail("eof")
                ELSE IF s[j] = "]" THEN ScanOk([k |-> "slice", e |-> <<>>], j + 1)
                ELSE ScanElems(s, j, <<>>)
        IN  WithNext(SkipSpace(s, i + 1))
    ELSE IF s[i] = "{" THEN
        LET WithNext(j) ==
                IF j > Len(s) THEN ScanFail("eof")
                ELSE IF s[j] = "}" THEN ScanOk([k |-> "map", m |-> <<>>], j + 1)
                ELSE ScanMembers(s, j, <<>>)
        IN  WithNext(SkipSpace(s, i + 1))
    ELSE IF s[i] = DQ THEN ScanString(s, i + 1, <<>>)
    ELSE IF s[i] = "-" \/ IsDigit(s[i]) THEN ScanNumber(s, i)
    ELSE IF s[i] = "t" THEN ScanLiteral(s, i, <<"t","r","u","e">>, [k |-> "bool", b |-> TRUE])
    ELSE IF s[i] = "f" THEN ScanLiteral(s, i, <<"f","a","l","s","e">>, [k |-> "bool", b |-> FALSE])
    ELSE IF s[i] = "n" THEN ScanLiteral(s, i, <<"n","u","l","l">>, NilValue)
    ELSE ScanFail("syntax")

\* The elements of an array from the element at i on; acc the elements read.
ScanElems(s, i, acc) ==
    LET AfterComma(v, n) ==
            IF n > Len(s) THEN ScanFail("eof") ELSE ScanElems(s, n, Append(acc, v.val))
        AfterValue(v, j) ==
            IF j > Len(s) THEN ScanFail("eof")
            ELSE IF s[j] = "]" THEN ScanOk([k |-> "slice", e |-> Append(acc, v.val)], j + 1)
            ELSE IF s[j] # "," THEN ScanFail("syntax")
            ELSE AfterComma(v, SkipSpace(s, j + 1))
        WithValue(v) == IF v.st # "ok" THEN v ELSE AfterValue(v, SkipSpace(s, v.nxt))
    IN  WithValue(ScanValue(s, i))

\* The members of an object from the key at i on; acc maps the keys read.
ScanMembers(s, i, acc) ==
    LET AfterComma(more, n) ==
            IF n > Len(s) THEN ScanFail("eof") ELSE ScanMembers(s, n, more)
        AfterValue(more, j) ==
            IF j > Len(s) THEN ScanFail("eof")
            ELSE IF s[j] = "}" THEN ScanOk([k |-> "map", m |-> more], j + 1)
            ELSE IF s[j] # "," THEN ScanFail("syntax")
            ELSE AfterComma(more, SkipSpace(s, j + 1))
        WithValue(key, v) ==
            IF v.st # "ok" THEN v
            ELSE AfterValue((key.val.s :> v.val) @@ acc, SkipSpace(s, v.nxt))
        AtValue(key, vi) ==
            IF vi > Len(s) THEN ScanFail("eof") ELSE WithValue(key, ScanValue(s, vi))
        AfterKey(key, c) ==
            IF c > Len(s) THEN ScanFail("eof")
            ELSE IF s[c] # ":" THEN ScanFail("syntax")
            ELSE AtValue(key, SkipSpace(s, c + 1))
        WithKey(key) == IF key.st # "ok" THEN key ELSE AfterKey(key, SkipSpace(s, key.nxt))
    IN  IF s[i] # DQ THEN ScanFail("syntax")
        ELSE WithKey(ScanString(s, i + 1, <<>>))

\* Decoder.readValue on a body stream that delivers the bytes of body and then
\* io.EOF, or, with readErr, a read error: the next value of the stream.  The
\* error is io.EOF when the stream holds nothing but white space.  An array or
\* an object ends with its closing bracket; any other value ends with the byte
\* after it, or with io.EOF.
readValue(body, readErr) ==
    LET WithValue(v) ==
            IF v.st = "syntax" THEN [err |-> "json: syntax error", val |-> NilValue]
            ELSE IF v.st = "eof"
            THEN [err |-> IF readErr THEN "read error" ELSE "unexpected EOF", val |-> NilValue]
            ELSE IF readErr /\ v.nxt > Len(body) /\ v.val.k \notin {"slice", "map"}
            THEN [err |-> "read error", val |-> NilValue]
            ELSE [err |-> "nil", val |-> v.val]
        WithStart(i) ==
            IF i > Len(body)
            THEN [err |-> IF readErr THEN "read error" ELSE "EOF", val |-> NilValue]
            ELSE WithValue(ScanValue(body, i))
    IN  WithStart(SkipSpace(body, 1))

\* A destination v of Decode:
\*   [k |-> "nil"]                    the nil interface
\*   [k |-> "nonptr", val |-> x]      a value that is no pointer
\*   [k |-> "ptr", val |-> x]         a *interface{} pointing at x
\*   [k |-> "sliceptr", val |-> x]    a *[]interface{} pointing at x
\* decodeState.unmarshal(v) of a scanned value: the error, and v afterwards.
unmarshal(val, v) ==
    IF v.k \in {"nil", "nonptr"} THEN [err |-> "json: InvalidUnmarshalError", v |-> v]
    ELSE IF v.k = "ptr" THEN [err |-> "nil", v |-> [v EXCEPT !.val = val]]
    ELSE IF val.k \in {"slice", "nil"} THEN [err |-> "nil", v |-> [v EXCEPT !.val = val]]
    ELSE [err |-> "json: UnmarshalTypeError", v |-> v]

\* json.NewDecoder(body).Decode(v)
Decode(body, readErr, v) ==
    LET WithValue(r) ==
            IF r.err # "nil" THEN [err |-> r.err, v |-> v] ELSE unmarshal(r.val, v)
    IN  WithValue(readValue(body, readErr))

(***************************************************************************)
(* package backstage: the constants, Client and NewClient                  *)
(***************************************************************************)
DefaultNamespaceName == "default"
userAgent == "go-backstage"
contentTypeJSON == "application/json"
apiPath == <<"/", "a", "p", "i">>

\* Nil pointers.
NilURL == [nil |-> TRUE]
NilHTTPClient == [nil |-> TRUE]
NilClient == [nil |-> TRUE]
NilRequest == [nil |-> TRUE]
NilResponse == [nil |-> TRUE]

\* &http.Client{}
DefaultHTTPClient == [Timeout |-> 0]

\* The base URL string NewClient parses without the API path appended.
NewClientBaseURLNoAppend(baseURL) == TrimSuffix(baseURL, <<"/">>)

\* Lines 50-53: the base URL string NewClient parses: one trailing slash
\* trimmed, the API path appended unless the string ends with it.
NewClientBaseURL(baseURL) ==
    LET WithTrimmed(trimmed) ==
            IF ~HasSuffix(trimmed, apiPath) THEN trimmed \o apiPath ELSE trimmed
    IN  WithTrimmed(TrimSuffix(baseURL, <<"/">>))

\* Lines 60-77: the Client built around the parsed base URL.
NewClientStruct(baseEndpoint, defaultNamespace, httpClient, token) ==
    [client |-> IF httpClient = NilHTTPClient THEN DefaultHTTPClient ELSE httpClient,
     BaseURL |-> baseEndpoint,
     UserAgent |-> userAgent,
     DefaultNamespace |-> IF defaultNamespace = "" THEN DefaultNamespaceName
                          ELSE defaultNamespace,
     Catalog |-> [client |-> "c"],
     token |-> token]

\* NewClient with the client returned along with the parse error.
NewClientKeepsClientOnError(baseURL, defaultNamespace, httpClient, token) ==
    LET WithParsed(r) ==
            [client |-> NewClientStruct(r.url, defaultNamespace, httpClient, token),
             err |-> r.err]
    IN  WithParsed(Parse(NewClientBaseURL(baseURL)))

\* NewClient(baseURL, defaultNamespace, httpClient, token): the client and the error.
NewClient(baseURL, defaultNamespace, httpClient, token) ==
    LET WithParsed(r) ==
            IF r.err # "nil" THEN [client |-> NilClient, err |-> r.err]
            ELSE [client |-> NewClientStruct(r.url, defaultNamespace, httpClient, token),
                  err |-> "nil"]
    IN  WithParsed(Parse(NewClientBaseURL(baseURL)))

(***************************************************************************)
(* package net/http: NewRequest                                            *)
(***************************************************************************)
\* httpguts token bytes
isTokenChar(c) ==
    IsAlnum(c) \/ c \in {"!", "#", "$", "%", "&", "'", "*", "+", "-", ".", "^", "_", BQ, "|", "~"}

validMethod(method) == Len(method) > 0 /\ \A k \in 1..Len(method) : isTokenChar(method[k])

\* http.removeEmptyPort(host)
removeEmptyPort(host) ==
    IF LastIndexChar(host, ":") > LastIndexChar(host, "]") THEN TrimSuffix(host, <<":">>)
    ELSE host

\* http.NewRequest(method, url, body): buf is [present, bytes], the io.Reader.
httpNewRequest(method, url, buf) ==
    LET WithURL(m, u) ==
            IF ~validMethod(m) THEN [req |-> NilRequest, err |-> "net/http: invalid method"]
            ELSE IF u.err # "nil" THEN [req |-> NilRequest, err |-> u.err]
            ELSE [req |-> [Method |-> m,
                           URL |-> [u.url EXCEPT !.Host = removeEmptyPort(u.url.Host)],
                           Host |-> removeEmptyPort(u.url.Host),
                           Header |-> <<>>,
                           Body |-> buf],
                  err |-> "nil"]
    IN  WithURL(IF method = <<>> THEN <<"G", "E", "T">> ELSE method, Parse(url))

(***************************************************************************)
(* Client.newRequest                                                       *)
(***************************************************************************)
\* Header.Set(key, value)
HeaderSet(h, key, value) == (key :> value) @@ h

NoBody == [present |-> FALSE, bytes |-> <<>>]

\* Lines 90-95: the URL string newRequest hands to http.NewRequest for the
\* parsed target u.  The error of url.JoinPath is dropped, and with it the
\* empty string becomes the path of the target.
resolvedURL(c, u) ==
    IF c.BaseURL # NilURL
    THEN String(ResolveReference(c.BaseURL,
                                 [u EXCEPT !.Path = JoinPath(c.BaseURL.Path, u.Path).val]))
    ELSE String(u)

\* The headers with a Content-Type set whatever the body.
requestHeaderAlwaysContentType(c, body) ==
    LET WithAgent(h) ==
            IF c.token # "" THEN HeaderSet(h, "Authorization", "Bearer " \o c.token) ELSE h
        WithAccept(h) ==
            WithAgent(IF c.UserAgent # "" THEN HeaderSet(h, "User-Agent", c.UserAgent) ELSE h)
    IN  WithAccept(HeaderSet(HeaderSet(<<>>, "Content-Type", contentTypeJSON),
                             "Accept", contentTypeJSON))

\* Lines 112-123: the headers newRequest sets on a request built for c with the
\* given body.
requestHeader(c, body) ==
    LET WithAgent(h) ==
            IF c.token # "" THEN HeaderSet(h, "Authorization", "Bearer " \o c.token) ELSE h
        WithAccept(h) ==
            WithAgent(IF c.UserAgent # "" THEN HeaderSet(h, "User-Agent", c.UserAgent) ELSE h)
        WithContentType(h) == WithAccept(HeaderSet(h, "Accept", contentTypeJSON))
    IN  WithContentType(IF body # NilValue
                        THEN HeaderSet(<<>>, "Content-Type", contentTypeJSON) ELSE <<>>)

\* c.newRequest(method, urlStr, body): the request and the error.
newRequest(c, method, urlStr, body) ==
    LET WithRequest(r) ==
            IF r.err # "nil" THEN r
            ELSE [req |-> [r.req EXCEPT !.Header = requestHeader(c, body)], err |-> "nil"]
        WithEncoded(u, enc) ==
            IF enc.err # "nil" THEN [req |-> NilRequest, err |-> enc.err]
            ELSE WithRequest(httpNewRequest(method, resolvedURL(c, u),
                                            [present |-> TRUE, bytes |-> enc.val]))
        WithParsed(u) ==
            IF u.err # "nil" THEN [req |-> NilRequest, err |-> u.err]
            ELSE IF body # NilValue THEN WithEncoded(u.url, Encode(body))
            ELSE WithRequest(httpNewRequest(method, resolvedURL(c, u.url), NoBody))
    IN  WithParsed(Parse(urlStr))

(***************************************************************************)
(* Client.do, one step at a time.  A call of do is a record:               *)
(*   req        the request                                                *)
(*   ctx        the context: "live", "canceled" or "deadline exceeded"     *)
(*   reachable  whether the host answers                                   *)
(*   server     what the host answers: StatusCode, ContentType, Body,      *)
(*              readErr (the body stream fails after its bytes) and        *)
(*              closeErr (Body.Close fails)                                *)
(*   v0, v      the destination before the call, and now                   *)
(*   pc         "start", "sent", "decoded", "closed", "returned"           *)
(*   resp       the response of the transport                              *)
(*   decErr     the error of the decode                                    *)
(*   closed     how often resp.Body was closed                             *)
(*   ret        what do returned: resp and err                             *)
(*   events     the steps taken, in order                                  *)
(***************************************************************************)
NewDoCall(req, ctx, reachable, server, v) ==
    [req |-> req, ctx |-> ctx, reachable |-> reachable, server |-> server,
     v0 |-> v, v |-> v, pc |-> "start", resp |-> NilResponse, decErr |-> "nil",
     closed |-> 0, ret |-> [resp |-> NilResponse, err |-> "nil"], events |-> <<>>]

\* c.client.Do(req.WithContext(ctx)): the response and the error.
clientDo(e) ==
    IF e.ctx # "live" THEN [resp |-> NilResponse, err |-> "context " \o e.ctx]
    ELSE IF e.req.URL.Scheme \notin {<<"h","t","t","p">>, <<"h","t","t","p","s">>}
    THEN [resp |-> NilResponse, err |-> "unsupported protocol scheme"]
    ELSE IF e.req.URL.Host = <<>> THEN [resp |-> NilResponse, err |-> "http: no Host in request URL"]
    ELSE IF ~e.reachable THEN [resp |-> NilResponse, err |-> "dial: connection refused"]
    ELSE [resp |-> [StatusCode |-> e.server.StatusCode,
                    Header |-> e.server.Header,
                    Body |-> e.server.Body],
          err |-> "nil"]

\* Lines 130-133: the transport call, and the return when it fails.
DoTransport(e) ==
    LET WithResponse(r) ==
            IF r.err # "nil"
            THEN [e EXCEPT !.pc = "returned", !.ret = [resp |-> NilResponse, err |-> r.err],
                           !.events = @ \o <<"transport", "return">>]
            ELSE [e EXCEPT !.pc = "sent", !.resp = r.resp, !.events = Append(@, "transport")]
    IN  WithResponse(clientDo(e))

\* The decode error returned as it is.
decodeErrorKeepsEOF(err) == err

\* Lines 140-142: io.EOF of the decode taken for no error.
decodeError(err) == IF err = "EOF" THEN "nil" ELSE err

\* Lines 139-142: the decode into v.
DoDecode(e) ==
    LET WithDecoded(d) ==
            [e EXCEPT !.pc = "decoded", !.v = d.v, !.decErr = decodeError(d.err),
                      !.events = Append(@, "decode")]
    IN  WithDecoded(Decode(e.resp.Body, e.server.readErr, e.v))

\* do with no deferred Close.
DoCloseSkipped(e) == [e EXCEPT !.pc = "closed"]

\* Lines 135-137: the deferred Body.Close(), its error dropped.
DoClose(e) ==
    [e EXCEPT !.pc = "closed", !.closed = @ + 1, !.events = Append(@, "close")]

\* do returning no response along with a decode error.
DoReturnDropsResponseOnError(e) ==
    [e EXCEPT !.pc = "returned",
              !.ret = [resp |-> IF e.decErr # "nil" THEN NilResponse ELSE e.resp,
                       err |-> e.decErr],
              !.events = Append(@, "return")]

\* Line 144: the return of the response and the decode error.
DoReturn(e) ==
    [e EXCEPT !.pc = "returned", !.ret = [resp |-> e.resp, err |-> e.decErr],
              !.events = Append(@, "return")]

\* One step of a call of do that has not returned.
DoStep(e) ==
    IF e.pc = "start" THEN DoTransport(e)
    ELSE IF e.pc = "sent" THEN DoDecode(e)
    ELSE IF e.pc = "decoded" THEN DoClose(e)
    ELSE DoReturn(e)

\* A call of do run from its start to its return with nothing in between.
RECURSIVE DoAlone(_)
DoAlone(e) == IF e.pc = "returned" THEN e ELSE DoAlone(DoStep(e))

(***************************************************************************)
(* The state.                                                              *)
(*   construct  a call of NewClient: its arguments, pc and result          *)
(*   client     the Client that newRequest and do are called on            *)
(*   request    a call of newRequest: its arguments, pc and result         *)
(*   exec       a call of do (see above)                                   *)
(*   calls      the calls of the callers that share client, one each       *)
(* A specification that does not use a variable leaves it at Unused.       *)
(***************************************************************************)
VARIABLES construct, client, request, exec, calls

vars == <<construct, client, request, exec, calls>>

Unused == [unused |-> TRUE]

(***************************************************************************)
(* Bounds and inputs.                                                      *)
(***************************************************************************)
MaxBaseLen == 5
MaxTargetLen == 3
MaxBodyLen == 3
NumCallers == 2

BaseAlphabet == {"/", "a", "p", "i", ":"}
TargetAlphabet == {"/", "x", ".", ":", "?", "#", "%", "2"}
BodyAlphabet == {"[", "]", "1", ",", " "}

HTTP == <<"h", "t", "t", "p", ":", "/", "/">>
Localhost == HTTP \o <<"l","o","c","a","l","h","o","s","t",":","7","0","0","7">>

\* Base URLs beyond the short ones: those of the tests, and ones with a query, a
\* fragment, an escape, several trailing slashes.
NotableBaseURLs ==
    { Localhost, Localhost \o apiPath, Localhost \o apiPath \o <<"/">>,
      Localhost \o apiPath \o <<"/", "/">>, Localhost \o <<"/", "/", "/">>,
      <<BS, "f", "o", "o", ":", "b", "a", "r">>,
      HTTP \o <<"h", "?", "q">>, HTTP \o <<"h", "#", "f">>,
      HTTP \o <<"h", "/", "%", "2", "5">>, HTTP \o <<"h", "/", "%", "z">>,
      HTTP \o <<"h", " ", "h">>, HTTP \o <<"h", ":", "x">>,
      <<"H", "T", "T", "P", ":", "/", "/", "h", "/", "a", " ", "b">> }

BaseURLInputs == StringsUpTo(BaseAlphabet, MaxBaseLen) \cup NotableBaseURLs

\* The other arguments of NewClient.
ClientOptions ==
    { [defaultNamespace |-> "", httpClient |-> NilHTTPClient, token |-> ""],
      [defaultNamespace |-> "custom", httpClient |-> [Timeout |-> 1], token |-> "jwt"] }

\* The clients newRequest is called on: clients NewClient built, and the struct
\* literals of the tests (Client{} and Client{UserAgent, BaseURL}).
RequestBaseURLs ==
    { HTTP \o <<"h">>, Localhost \o apiPath \o <<"/">>, <<>>, <<"f", "o", "o">>,
      <<"a", ":", "b">>, HTTP \o <<"h", "/", "%", "2", "5">> }

LiteralClient(baseURL, ua) ==
    [client |-> NilHTTPClient, BaseURL |-> baseURL, UserAgent |-> ua,
     DefaultNamespace |-> "", Catalog |-> [nil |-> TRUE], token |-> ""]

RequestClients ==
    {NewClient(b, "", NilHTTPClient, "jwt").client : b \in RequestBaseURLs}
    \cup {LiteralClient(NilURL, ""), LiteralClient(Parse(Localhost \o apiPath).url, "foo")}

NotableTargets ==
    { <<"/","c","a","t","a","l","o","g","/","e","n","t","i","t","i","e","s">>,
      Localhost \o apiPath \o <<"/","c","a","t","a","l","o","g">>,
      HTTP \o <<"o", "/", "x", "/">>,
      <<BS, "f", "o", "o", ":", "b", "a", "r">>,
      <<"/", "x", "%", "2", "F", "y">>, <<"/", "%", "2", "5">>,
      <<"H", "T", "T", "P", ":", "/", "/", "o", "/", "x", " ", "y">> }

TargetInputs == StringsUpTo(TargetAlphabet, MaxTargetLen) \cup NotableTargets

GET == <<"G", "E", "T">>
POST == <<"P", "O", "S", "T">>
MethodInputs == {GET, POST, <<>>, <<"G", " ", "T">>}

FooBar == [k |-> "struct", f |-> << << <<"F","o","o">>, [k |-> "str", s |-> <<"B","a","r">>] >> >>]
BodyInputs ==
    { NilValue, FooBar, [k |-> "int", n |-> 120], [k |-> "str", s |-> <<"a", DQ, "<", BS>>],
      [k |-> "slice", e |-> <<[k |-> "int", n |-> 1], NilValue, [k |-> "bool", b |-> TRUE]>>],
      [k |-> "slice", e |-> <<>>],
      [k |-> "chan"], [k |-> "slice", e |-> <<[k |-> "chan"]>>] }

\* The arguments of the calls of newRequest: every target with a GET and no
\* body, and every method and body with the notable targets.
RequestInputs ==
    {[method |-> GET, urlStr |-> t, body |-> NilValue] : t \in TargetInputs}
    \cup {[method |-> m, urlStr |-> t, body |-> b] :
             m \in MethodInputs, t \in NotableTargets, b \in BodyInputs}

\* Response bodies: the short ones over the alphabet, and those of the tests.
NotableResponseBodies ==
    { <<"{", DQ, "f", "o", "o", DQ, ":", DQ, "b", "a", "r", DQ, "}">>,
      <<"{", DQ, "f", "o", "o", DQ, ":">>, <<"n", "u", "l", "l">>, <<"n", "u", "l">>,
      <<"<", "h", "t", "m", "l", ">">>, <<"[", "1", ",", "1", "]", NL>>, <<NL>> }

ResponseBodies == StringsUpTo(BodyAlphabet, MaxBodyLen) \cup NotableResponseBodies

Servers ==
    [StatusCode : {200, 404},
     Header : {("Content-Type" :> contentTypeJSON)},
     Body : ResponseBodies,
     readErr : BOOLEAN,
     closeErr : BOOLEAN]

NoServer == [none |-> TRUE]

Destinations ==
    { [k |-> "nil"], [k |-> "nonptr", val |-> NilValue],
      [k |-> "ptr", val |-> NilValue], [k |-> "ptr", val |-> [k |-> "str", s |-> <<"o", "l", "d">>]],
      [k |-> "sliceptr", val |-> [k |-> "slice", e |-> <<[k |-> "str", s |-> <<"o", "l", "d">>]>>]] }

\* The requests do is called with: one for an http host, and one newRequest
\* built on a client with no base URL for a relative target.
GoodRequest == newRequest(NewClient(Localhost, "", NilHTTPClient, "").client, GET,
                          <<"/", "f", "o", "o", "/", "b", "a", "r">>, NilValue).req
RelativeRequest == newRequest(LiteralClient(NilURL, ""), GET, <<"/", "f", "o", "o">>, NilValue).req

\* The request, the context and whether the host is reachable.
TransportInputs ==
    { [req |-> GoodRequest, ctx |-> "live", reachable |-> TRUE],
      [req |-> GoodRequest, ctx |-> "live", reachable |-> FALSE],
      [req |-> GoodRequest, ctx |-> "canceled", reachable |-> TRUE],
      [req |-> GoodRequest, ctx |-> "deadline exceeded", reachable |-> TRUE],
      [req |-> RelativeRequest, ctx |-> "live", reachable |-> TRUE] }

\* The answers the host can give to a call: none when it is not reached.
ServersFor(e) == IF e.ctx = "live" /\ e.reachable THEN Servers ELSE {NoServer}

(***************************************************************************)
(* NewClient                                                               *)
(***************************************************************************)
InitNewClient ==
    /\ construct \in {[pc |-> "call", baseURL |-> b, defaultNamespace |-> o.defaultNamespace,
                       httpClient |-> o.httpClient, token |-> o.token,
                       res |-> [client |-> NilClient, err |-> "nil"]] :
                         b \in BaseURLInputs, o \in ClientOptions}
    /\ client = Unused
    /\ request = Unused
    /\ exec = Unused
    /\ calls = Unused

CallNewClient ==
    /\ construct.pc = "call"
    /\ construct' = [construct EXCEPT
                        !.pc = "done",
                        !.res = NewClient(construct.baseURL, construct.defaultNamespace,
                                          construct.httpClient, construct.token)]
    /\ UNCHANGED <<client, request, exec, calls>>

NextNewClient == CallNewClient

SpecNewClient == InitNewClient /\ [][NextNewClient]_vars

(***************************************************************************)
(* newRequest                                                              *)
(***************************************************************************)
InitRequest ==
    /\ construct = Unused
    /\ client \in RequestClients
    /\ request \in {[pc |-> "call", method |-> i.method, urlStr |-> i.urlStr, body |-> i.body,
                     res |-> [req |-> NilRequest, err |-> "nil"]] : i \in RequestInputs}
    /\ exec = Unused
    /\ calls = Unused

CallNewRequest ==
    /\ request.pc = "call"
    /\ request' = [request EXCEPT
                      !.pc = "done",
                      !.res = newRequest(client, request.method, request.urlStr, request.body)]
    /\ UNCHANGED <<construct, client, exec, calls>>

NextRequest == CallNewRequest

SpecRequest == InitRequest /\ [][NextRequest]_vars

(***************************************************************************)
(* do                                                                      *)
(***************************************************************************)
InitDo ==
    /\ construct = Unused
    /\ client = NewClient(Localhost, "", NilHTTPClient, "").client
    /\ request = Unused
    /\ exec \in {NewDoCall(t.req, t.ctx, t.reachable, NoServer, v) :
                    t \in TransportInputs, v \in Destinations}
    /\ calls = Unused

ExecTransport ==
    /\ exec.pc = "start"
    /\ \E srv \in ServersFor(exec) : exec' = DoTransport([exec EXCEPT !.server = srv])
    /\ UNCHANGED <<construct, client, request, calls>>

ExecDecode ==
    /\ exec.pc = "sent"
    /\ exec' = DoDecode(exec)
    /\ UNCHANGED <<construct, client, request, calls>>

ExecClose ==
    /\ exec.pc = "decoded"
    /\ exec' = DoClose(exec)
    /\ UNCHANGED <<construct, client, request, calls>>

ExecReturn ==
    /\ exec.pc = "closed"
    /\ exec' = DoReturn(exec)
    /\ UNCHANGED <<construct, client, request, calls>>

NextDo == ExecTransport \/ ExecDecode \/ ExecClose \/ ExecReturn

SpecDo == InitDo /\ [][NextDo]_vars

(***************************************************************************)
(* Callers sharing one client.  NewClient builds the client; then each of  *)
(* NumCallers callers builds a request with newRequest and, if that        *)
(* succeeds, executes it with do, the steps of the callers interleaved.    *)
(* A caller is a record: in its arguments and the answer of the host, pc   *)
(* "idle", "built", "running" or "done", built the result of newRequest,   *)
(* run its call of do.                                                     *)
(***************************************************************************)
Callers == 1..NumCallers

SharedBaseURLs == {Localhost, HTTP \o <<"h", "/", "a", "/">>, <<BS, "f", "o", "o", ":", "b", "a", "r">>}

OkServer(body) ==
    [StatusCode |-> 200, Header |-> ("Content-Type" :> contentTypeJSON), Body |-> body,
     readErr |-> FALSE, closeErr |-> FALSE]

CallerInputs ==
    { [method |-> POST, urlStr |-> <<"/", "x">>, body |-> FooBar, ctx |-> "live",
       reachable |-> TRUE, server |-> OkServer(<<"[", "1", "]">>),
       v |-> [k |-> "sliceptr", val |-> [k |-> "slice", e |-> <<>>]]],
      [method |-> GET, urlStr |-> <<"y">>, body |-> NilValue, ctx |-> "live",
       reachable |-> TRUE, server |-> [OkServer(<<>>) EXCEPT !.StatusCode = 404],
       v |-> [k |-> "nil"]],
      [method |-> GET, urlStr |-> <<"/", "x">>, body |-> NilValue, ctx |-> "live",
       reachable |-> FALSE, server |-> NoServer, v |-> [k |-> "ptr", val |-> NilValue]],
      [method |-> GET, urlStr |-> <<"%">>, body |-> NilValue, ctx |-> "live",
       reachable |-> TRUE, server |-> OkServer(<<"1">>), v |-> [k |-> "ptr", val |-> NilValue]] }

\* The call of do a caller makes with the request it built.
CallerDoCall(in, req) == NewDoCall(req, in.ctx, in.reachable, in.server, in.v)

\* newRequest writing the joined path through the pointer c.BaseURL.
clientWithJoinedPath(c, urlStr) ==
    LET WithParsed(u) ==
            IF u.err # "nil" \/ c.BaseURL = NilURL THEN c
            ELSE [c EXCEPT !.BaseURL.Path = JoinPath(c.BaseURL.Path, u.url.Path).val]
    IN  WithParsed(Parse(urlStr))

\* The client after c.newRequest(method, urlStr, body): newRequest assigns to
\* its local u only, and ResolveReference works on a copy of its argument.
clientAfterNewRequest(c, urlStr) == c

\* The client after a step of c.do: do reads c.client and assigns no field.
clientAfterDo(c) == c

Init ==
    /\ construct \in {[pc |-> "call", baseURL |-> b, defaultNamespace |-> "",
                       httpClient |-> NilHTTPClient, token |-> "jwt",
                       res |-> [client |-> NilClient, err |-> "nil"]] : b \in SharedBaseURLs}
    /\ client = NilClient
    /\ request = Unused
    /\ exec = Unused
    /\ calls \in [Callers -> {[in |-> i, pc |-> "idle", built |-> [req |-> NilRequest, err |-> "nil"],
                               run |-> Unused] : i \in CallerInputs}]

Construct ==
    /\ construct.pc = "call"
    /\ LET WithResult(res) ==
               /\ construct' = [construct EXCEPT !.pc = "done", !.res = res]
               /\ client' = res.client
       IN  WithResult(NewClient(construct.baseURL, construct.defaultNamespace,
                                construct.httpClient, construct.token))
    /\ UNCHANGED <<request, exec, calls>>

CallerNewRequest(i) ==
    /\ client # NilClient
    /\ calls[i].pc = "idle"
    /\ calls' = [calls EXCEPT ![i].pc = "built",
                              ![i].built = newRequest(client, calls[i].in.method,
                                                      calls[i].in.urlStr, calls[i].in.body)]
    /\ client' = clientAfterNewRequest(client, calls[i].in.urlStr)
    /\ UNCHANGED <<construct, request, exec>>

CallerDo(i) ==
    /\ calls[i].pc = "built"
    /\ calls[i].built.err = "nil"
    /\ calls' = [calls EXCEPT ![i].pc = "running",
                              ![i].run = CallerDoCall(calls[i].in, calls[i].built.req)]
    /\ UNCHANGED <<construct, client, request, exec>>

CallerDoStep(i) ==
    /\ calls[i].pc = "running"
    /\ LET WithStep(e) ==
               calls' = [calls EXCEPT ![i].run = e,
                                      ![i].pc = IF e.pc = "returned" THEN "done" ELSE "running"]
       IN  WithStep(DoStep(calls[i].run))
    /\ client' = clientAfterDo(client)
    /\ UNCHANGED <<construct, request, exec>>

Next ==
    \/ Construct
    \/ \E i \in Callers : CallerNewRequest(i)
    \/ \E i \in Callers : CallerDo(i)
    \/ \E i \in Callers : CallerDoStep(i)

Spec == Init /\ [][Next]_vars

(***************************************************************************)
(* Properties of NewClient (SpecNewClient).                                *)
(***************************************************************************)
\* C1: whenever NewClient succeeds, the base URL stored in the returned client,
\* written as a string, does not end with "/" and ends with "/api".
C1_StoredBaseURLEndsWithAPI ==
    (construct.pc = "done" /\ construct.res.err = "nil") =>
        /\ ~HasSuffix(String(construct.res.client.BaseURL), <<"/">>)
        /\ HasSuffix(String(construct.res.client.BaseURL), <<"/", "a", "p", "i">>)

\* NewClient succeeded on a base URL ending in "/api/" and stored it without
\* the slash.
C1_Witness ==
    /\ construct.pc = "done"
    /\ construct.baseURL = Localhost \o <<"/", "a", "p", "i", "/">>
    /\ construct.res.err = "nil"
    /\ String(construct.res.client.BaseURL) = Localhost \o <<"/", "a", "p", "i">>

\* The base URL of a call with one trailing slash trimmed and "/api" appended
\* if absent, written without the operators of NewClient.
C10_Normalised(b) ==
    LET WithTrimmed(t) ==
            IF Len(t) >= 4 /\ SubSeq(t, Len(t) - 3, Len(t)) = <<"/", "a", "p", "i">>
            THEN t ELSE t \o <<"/", "a", "p", "i">>
    IN  WithTrimmed(IF Len(b) >= 1 /\ b[Len(b)] = "/" THEN SubSeq(b, 1, Len(b) - 1) ELSE b)

\* C10: NewClient returns an error and a nil client when the normalised base
\* URL does not parse, a client and no error when it does, and never both a
\* client and an error.
C10_ErrorIffUnparseable ==
    construct.pc = "done" =>
        /\ (construct.res.err # "nil") <=> (Parse(C10_Normalised(construct.baseURL)).err # "nil")
        /\ (construct.res.err # "nil") <=> (construct.res.client = NilClient)

\* NewClient was called with the unparseable base URL of the tests and
\* returned an error and no client.
C10_Witness ==
    /\ construct.pc = "done"
    /\ construct.baseURL = <<BS, "f", "o", "o", ":", "b", "a", "r">>
    /\ construct.res.err # "nil"
    /\ construct.res.client = NilClient

(***************************************************************************)
(* Properties of newRequest (SpecRequest).                                 *)
(***************************************************************************)
\* C6: every request newRequest builds has Accept: application/json, has a
\* Content-Type (application/json) exactly when the body is not nil, and with a
\* body carries the JSON encoding of the body followed by a newline; for the
\* struct of the tests that is {"Foo":"Bar"} and a newline.
C6_HeadersAndPayload ==
    (request.pc = "done" /\ request.res.err = "nil") =>
        /\ "Accept" \in DOMAIN request.res.req.Header
        /\ request.res.req.Header["Accept"] = "application/json"
        /\ ("Content-Type" \in DOMAIN request.res.req.Header) <=> (request.body # NilValue)
        /\ "Content-Type" \in DOMAIN request.res.req.Header
              => request.res.req.Header["Content-Type"] = "application/json"
        /\ request.body # NilValue
              => /\ request.res.req.Body.present
                 /\ request.res.req.Body.bytes = Marshal(request.body).val \o <<NL>>
        /\ request.body = FooBar
              => request.res.req.Body.bytes =
                     <<"{", DQ, "F", "o", "o", DQ, ":", DQ, "B", "a", "r", DQ, "}", NL>>
        /\ request.body = NilValue => ~request.res.req.Body.present

\* newRequest built a POST request with the struct of the tests as its body.
C6_Witness ==
    /\ request.pc = "done"
    /\ request.res.err = "nil"
    /\ request.method = POST
    /\ request.body = FooBar
    /\ "Content-Type" \in DOMAIN request.res.req.Header

\* C7 (as stated): when joining the base path with the target path fails,
\* newRequest returns an error and no request.
C7_JoinErrorReturned ==
    ( /\ request.pc = "done"
      /\ client.BaseURL # NilURL
      /\ Parse(request.urlStr).err = "nil"
      /\ JoinPath(client.BaseURL.Path, Parse(request.urlStr).url.Path).err # "nil" )
    => (request.res.err # "nil" /\ request.res.req = NilRequest)

\* path.Join of a base path and a target path, the trailing slash of the
\* target kept: the path C9 expects.
C9_JoinedPath(b, t) ==
    LET WithJoined(j) == IF HasSuffix(t, <<"/">>) /\ ~HasSuffix(j, <<"/">>) THEN j \o <<"/">> ELSE j
    IN  WithJoined(pathJoin(b, t))

\* C9 (as stated): with a base URL B the path of the request URL is B's path
\* joined with the target's path, a target without scheme and host gets those
\* of B and any other target keeps its own; with no base URL the request URL is
\* the target as given.
C9_TargetResolved ==
    (request.pc = "done" /\ request.res.err = "nil") =>
        IF client.BaseURL = NilURL
        THEN String(request.res.req.URL) = request.urlStr
        ELSE /\ request.res.req.URL.Path =
                    C9_JoinedPath(client.BaseURL.Path, Parse(request.urlStr).url.Path)
             /\ IF Parse(request.urlStr).url.Scheme = <<>> /\ Parse(request.urlStr).url.Host = <<>>
                THEN /\ request.res.req.URL.Scheme = client.BaseURL.Scheme
                     /\ request.res.req.URL.Host = client.BaseURL.Host
                ELSE /\ Parse(request.urlStr).url.Scheme # <<>>
                        => request.res.req.URL.Scheme = Parse(request.urlStr).url.Scheme
                     /\ request.res.req.URL.Host = Parse(request.urlStr).url.Host

(***************************************************************************)
(* Properties of do (SpecDo).                                              *)
(***************************************************************************)
\* C2 (as stated): a call of do with a nil destination whose transport call
\* succeeded returns the response and no error, whatever the body.
C2_NilDestinationNoError ==
    (exec.pc = "returned" /\ exec.resp # NilResponse /\ exec.v0 = [k |-> "nil"])
    => (exec.ret.err = "nil" /\ exec.ret.resp = exec.resp)

\* C3: a call of do whose transport call succeeded and whose response body is
\* empty returns no error and leaves the destination as it was, for every
\* destination and status code.
C3_EmptyBodyNoError ==
    ( /\ exec.pc = "returned"
      /\ exec.resp # NilResponse
      /\ exec.server.Body = <<>>
      /\ ~exec.server.readErr )
    => (exec.ret.err = "nil" /\ exec.v = exec.v0)

\* do returned from a 404 answer with an empty body, the destination a pointer
\* to an old value.
C3_Witness ==
    /\ exec.pc = "returned"
    /\ exec.resp # NilResponse
    /\ exec.server.Body = <<>>
    /\ ~exec.server.readErr
    /\ exec.server.StatusCode = 404
    /\ exec.v0 = [k |-> "ptr", val |-> [k |-> "str", s |-> <<"o", "l", "d">>]]
    /\ exec.ret.err = "nil"

\* C4: do returns a response exactly when the transport call returned one; a
\* failed decode is returned with the response of the transport, status code
\* and headers as the host sent them; an unreachable host or a context that is
\* cancelled or past its deadline gives an error, no response and no decode.
C4_ResponseIffTransportOk ==
    exec.pc = "returned" =>
        /\ (exec.ret.resp # NilResponse) <=> (exec.resp # NilResponse)
        /\ (exec.resp # NilResponse /\ exec.decErr # "nil")
              => /\ exec.ret.err = exec.decErr
                 /\ exec.ret.resp.StatusCode = exec.server.StatusCode
                 /\ exec.ret.resp.Header = exec.server.Header
        /\ (~exec.reachable \/ exec.ctx # "live")
              => /\ exec.ret.err # "nil"
                 /\ exec.ret.resp = NilResponse
                 /\ \A k \in 1..Len(exec.events) : exec.events[k] # "decode"
                 /\ exec.v = exec.v0

\* do returned a syntax error of the decode together with the 404 response.
C4_Witness ==
    /\ exec.pc = "returned"
    /\ exec.resp # NilResponse
    /\ exec.server.Body = <<"<", "h", "t", "m", "l", ">">>
    /\ exec.server.StatusCode = 404
    /\ exec.ret.err = "json: syntax error"
    /\ exec.ret.resp # NilResponse

\* C5: the body of a response is closed at most once and only after the
\* decode; a call that got a response has, when it returns, decoded, then
\* closed the body once, then returned, whatever the decode gave; a call whose
\* transport failed closes nothing.
C5_ClosedOnceAfterDecode ==
    /\ exec.closed <= 1
    /\ exec.closed = 1 => exec.pc \in {"closed", "returned"}
    /\ exec.pc = "returned" =>
          IF exec.resp # NilResponse
          THEN /\ exec.closed = 1
               /\ exec.events = <<"transport", "decode", "close", "return">>
          ELSE /\ exec.closed = 0
               /\ exec.events = <<"transport", "return">>

\* do returned after a decode that failed, the body closed once.
C5_Witness ==
    /\ exec.pc = "returned"
    /\ exec.resp # NilResponse
    /\ exec.decErr = "unexpected EOF"
    /\ exec.closed = 1

====
